---- MODULE Spec2Model ----
(***************************************************************************)
(* Model of app/main.py: the startup loader (fetch_all_messages driven by  *)
(* startup_event) that mirrors the paginated upstream feed into            *)
(* MESSAGES_CACHE, and the /search endpoint (search_messages) that scans   *)
(* the cache and paginates the matches.                                    *)
(*                                                                         *)
(* Strings are sequences of one-character strings, so that lower() and the *)
(* substring test `in` are computed and not assumed.  Delays are in        *)
(* milliseconds.  A Message keeps the fields the program reads (id,        *)
(* user_name, message); user_id and timestamp are carried through          *)
(* untouched by the code and are left out.                                 *)
(***************************************************************************)
EXTENDS Integers, Sequences, FiniteSets, TLC

VARIABLES
    upstream,        \* the dataset the upstream API serves: [total, pattern]
    MESSAGES_CACHE,  \* the module-level cache (main.py:15)
    pc,              \* where startup_event / fetch_all_messages is suspended
    all_data,        \* fetch_all_messages local
    skip,            \* fetch_all_messages local
    total,           \* fetch_all_messages local (None until the first page)
    attempt,         \* loop variable of the current retry loop
    inflight,        \* offsets of the upstream requests awaiting a response
    sleeps,          \* backoff sleeps taken so far in the current retry loop
    outcomes,        \* attempt outcomes so far in the current retry loop
    sleeping,        \* duration of the asyncio.sleep the loader is suspended in
    nrequests,       \* requests sent so far by the running fetch_all_messages
    requested,       \* history: offsets requested so far
    succeeded,       \* history: offsets whose fetch succeeded
    exhausted,       \* history: offsets whose retry loop ran out of attempts
    result,          \* history: how the load ended
    response,        \* the last answer of the /search endpoint
    scan             \* history: pages 1..k of one query/limit, concatenated

vars == <<upstream, MESSAGES_CACHE, pc, all_data, skip, total, attempt,
          inflight, sleeps, outcomes, sleeping, nrequests, requested,
          succeeded, exhausted, result, response, scan>>

loaderVars == <<MESSAGES_CACHE, pc, all_data, skip, total, attempt, inflight,
                sleeps, outcomes, sleeping, nrequests, requested, succeeded,
                exhausted, result>>

-----------------------------------------------------------------------------
(* Program constants *)

UPSTREAM_PAGE_LIMIT == 100
MAX_RETRIES == 5
INITIAL_DELAY_MS == 500
LIMIT_LE == 100
None == -1

(* Bounds of the model *)

MaxPage == 3
MaxSmallTotal == 2

Min(a, b) == IF a < b THEN a ELSE b

RECURSIVE Pow2(_)
Pow2(n) == IF n = 0 THEN 1 ELSE 2 * Pow2(n - 1)

-----------------------------------------------------------------------------
(* Strings *)

LowerChar(c) ==
    CASE c = "A" -> "a"
      [] c = "B" -> "b"
      [] OTHER -> c

\* str.lower()
Lower(s) == [i \in 1..Len(s) |-> LowerChar(s[i])]

\* Python's `needle in hay` on strings
Contains(needle, hay) ==
    \E i \in 0..(Len(hay) - Len(needle)) :
        \A j \in 1..Len(needle) : hay[i + j] = needle[j]

\* the start index clamped to the last element
SliceClamped(s, start, end) ==
    IF Len(s) = 0 THEN <<>>
    ELSE SubSeq(s, Min(start + 1, Len(s)), Min(end, Len(s)))

\* Python's s[start:end] for 0 <= start <= end
Slice(s, start, end) ==
    IF start >= Len(s) THEN <<>> ELSE SubSeq(s, start + 1, Min(end, Len(s)))

-----------------------------------------------------------------------------
(* The upstream feed *)

Texts == {[message |-> <<"A", "b">>, user_name |-> <<"b">>],
          [message |-> <<"b">>, user_name |-> <<"B", "a">>],
          [message |-> <<"b">>, user_name |-> <<"b">>]}

Patterns ==
    {<<t>> : t \in Texts}
        \cup {p \in Texts \X Texts : p[1] # p[2]}

BigPatterns == {<<[message |-> <<"A", "b">>, user_name |-> <<"b">>]>>,
                <<[message |-> <<"b">>, user_name |-> <<"B", "a">>],
                  [message |-> <<"b">>, user_name |-> <<"b">>]>>}

BigTotals == {100, 101, 250}

\* Feeds of up to MaxSmallTotal records of every pattern; feeds of one and
\* two pages in which every record matches "a", and feeds of three pages in
\* which every record, or every other record, does
Datasets ==
    [total : 0..MaxSmallTotal, pattern : Patterns]
        \cup {d \in [total : BigTotals, pattern : BigPatterns] :
                  d.total > 2 * UPSTREAM_PAGE_LIMIT \/ Len(d.pattern) = 1}

\* The i-th record of the feed (1-based)
Message(i) ==
    LET t == upstream.pattern[((i - 1) % Len(upstream.pattern)) + 1]
    IN  [id |-> i, user_name |-> t.user_name, message |-> t.message]

\* The "items" of the response to GET ?skip=s&limit=l
UpstreamItems(s, l) ==
    IF s >= upstream.total THEN <<>>
    ELSE [j \in 1..Min(l, upstream.total - s) |-> Message(s + j)]

-----------------------------------------------------------------------------
(* search_messages *)

\* the user_name test forgotten
is_match_message_only(msg, normalized_query) ==
    Contains(normalized_query, Lower(msg.message))

is_match(msg, normalized_query) ==
    LET message_content == Lower(msg.message)
        user_name == Lower(msg.user_name)
    IN  Contains(normalized_query, message_content)
            \/ Contains(normalized_query, user_name)

matching_messages(cache, query) ==
    LET normalized_query == Lower(query)
    IN  SelectSeq(cache, LAMBDA msg : is_match(msg, normalized_query))

\* the page taken as 0-based
start_index_zero_based(page, limit) == page * limit

start_index(page, limit) == (page - 1) * limit

end_index(page, limit) == start_index(page, limit) + limit

paginated_results(matches, page, limit) ==
    Slice(matches, start_index(page, limit), end_index(page, limit))

SearchResult(cache, query, page, limit) ==
    LET matches == matching_messages(cache, query)
    IN  [total_matches |-> Len(matches),
         page_number |-> page,
         page_limit |-> limit,
         items |-> paginated_results(matches, page, limit)]

\* `le=100` forgotten
ValidRequestNoUpperLimit(query, page, limit) ==
    /\ Len(query) >= 1
    /\ page >= 1
    /\ limit >= 1

\* Query(..., min_length=1), Query(1, ge=1), Query(10, ge=1, le=100)
ValidRequest(query, page, limit) ==
    /\ Len(query) >= 1
    /\ page >= 1
    /\ limit >= 1
    /\ limit <= LIMIT_LE

\* the empty-cache test dropped
never_unavailable(cache) == FALSE

\* `if not MESSAGES_CACHE`
Unavailable(cache) == cache = <<>>

Queries == {<<>>, <<"a">>, <<"A", "B">>}
Pages == 0..MaxPage
Limits == {0, 1, 2, LIMIT_LE, LIMIT_LE + 1}

\* The requests sent to /search: every valid combination, and requests with
\* one parameter, or all three, out of range
Requests ==
    LET all == [query : Queries, page : Pages, limit : Limits]
        ok(r) == r.query # <<>> /\ r.page >= 1 /\ r.limit \in 1..LIMIT_LE
        plain == [query |-> <<"a">>, page |-> 1, limit |-> 2]
    IN  {r \in all : ok(r)}
            \cup {[plain EXCEPT !.query = <<>>],
                  [plain EXCEPT !.page = 0],
                  [plain EXCEPT !.limit = 0],
                  [plain EXCEPT !.limit = LIMIT_LE + 1],
                  [query |-> <<>>, page |-> 0, limit |-> 0]}

NoScan == [query |-> <<>>, limit |-> 0, k |-> 0, items |-> <<>>]

\* The pages a client has read in a row: page 1 starts a scan, page k+1 of
\* the same query and limit extends it, anything else ends it.
NextScan(query, page, limit, items) ==
    IF page = 1
    THEN [query |-> query, limit |-> limit, k |-> 1, items |-> items]
    ELSE IF scan.k >= 1 /\ scan.query = query /\ scan.limit = limit
             /\ page = scan.k + 1
         THEN [scan EXCEPT !.k = page, !.items = scan.items \o items]
         ELSE NoScan

Search(query, page, limit) ==
    LET request == [query |-> query, page |-> page, limit |-> limit]
    IN  /\ IF ~ValidRequest(query, page, limit)
           THEN /\ response' = [request |-> request, status |-> 422,
                                result |-> <<>>]
                /\ scan' = NoScan
           ELSE IF Unavailable(MESSAGES_CACHE)
                THEN /\ response' = [request |-> request, status |-> 503,
                                     result |-> <<>>]
                     /\ scan' = NoScan
                ELSE LET r == SearchResult(MESSAGES_CACHE, query, page, limit)
                     IN  /\ response' = [request |-> request, status |-> 200,
                                         result |-> <<r>>]
                         /\ scan' = NextScan(query, page, limit, r.items)
        /\ UNCHANGED <<upstream, loaderVars>>

-----------------------------------------------------------------------------
(* startup_event and fetch_all_messages *)

Delay(a) == INITIAL_DELAY_MS * Pow2(a)

\* the load run again after a critical failure
StartupRetrying ==
    /\ pc = "boot" \/ (pc = "done" /\ result = "critical")
    /\ all_data' = <<>>
    /\ skip' = 0
    /\ total' = None
    /\ attempt' = 0
    /\ inflight' = inflight \cup {0}
    /\ nrequests' = nrequests + 1
    /\ requested' = requested \cup {0}
    /\ pc' = "first_get"
    /\ sleeping' = 0
    /\ UNCHANGED <<upstream, MESSAGES_CACHE, sleeps, outcomes, succeeded,
                   exhausted, result, response, scan>>

\* startup_event calls fetch_all_messages, which sends the first request
Startup ==
    /\ pc = "boot"
    /\ all_data' = <<>>
    /\ skip' = 0
    /\ total' = None
    /\ attempt' = 0
    /\ inflight' = inflight \cup {0}
    /\ nrequests' = nrequests + 1
    /\ requested' = requested \cup {0}
    /\ pc' = "first_get"
    /\ sleeping' = 0
    /\ UNCHANGED <<upstream, MESSAGES_CACHE, sleeps, outcomes, succeeded,
                   exhausted, result, response, scan>>

\* The locals of fetch_all_messages, and the tally of the requests the call
\* has sent, are gone once it has returned or raised
LocalsDropped ==
    /\ all_data' = <<>>
    /\ skip' = 0
    /\ total' = None
    /\ attempt' = 0
    /\ sleeps' = <<>>
    /\ outcomes' = <<>>
    /\ nrequests' = 0

\* MESSAGES_CACHE = await fetch_all_messages(client), the call having returned
Publish(value) ==
    /\ MESSAGES_CACHE' = value
    /\ result' = "loaded"
    /\ pc' = "done"
    /\ sleeping' = 0
    /\ LocalsDropped

\* skip += UPSTREAM_PAGE_LIMIT
NextSkip(s) == s + UPSTREAM_PAGE_LIMIT

\* the page put in front of the list
ExtendFront(data, items) == items \o data

\* all_data.extend(data.get("items", []))
Extend(data, items) == data \o items

\* the courtesy pause forgotten
NoPauseBefore(p) == 0

\* `await asyncio.sleep(INITIAL_DELAY_SECONDS)` opens the body of the while
\* loop: the sleep the loader is in when it reaches p
PauseBefore(p) == IF p = "page_pause" THEN INITIAL_DELAY_MS ELSE 0

\* the loop stopping one page early
AfterPageStopsEarly(s, t) ==
    IF s + UPSTREAM_PAGE_LIMIT < t THEN "page_pause" ELSE "final_check"

\* `while skip < total`: the base-delay sleep of the next offset, or the
\* final check when no offset is left
AfterPage(s, t) == IF s < t THEN "page_pause" ELSE "final_check"

\* `>=` for `>`
AfterFirstPageInclusive(s, t) ==
    IF t # 0 /\ t >= UPSTREAM_PAGE_LIMIT THEN "page_pause" ELSE "final_check"

\* `if total and total > UPSTREAM_PAGE_LIMIT`, then `while skip < total`
AfterFirstPage(s, t) ==
    IF t # 0 /\ t > UPSTREAM_PAGE_LIMIT THEN AfterPage(s, t) ELSE "final_check"

FetchErrors == {"HTTPStatusError", "Exception"}

\* the `total == 0` early return forgotten
FirstPageOkNoEarlyReturn ==
    /\ pc = "first_get"
    /\ 0 \in inflight
    /\ inflight' = inflight \ {0}
    /\ succeeded' = succeeded \cup {0}
    /\ total' = upstream.total
    /\ all_data' = Extend(all_data, UpstreamItems(0, UPSTREAM_PAGE_LIMIT))
    /\ skip' = NextSkip(skip)
    /\ outcomes' = Append(outcomes, "ok")
    /\ pc' = AfterFirstPage(NextSkip(skip), upstream.total)
    /\ sleeping' = PauseBefore(AfterFirstPage(NextSkip(skip), upstream.total))
    /\ UNCHANGED <<upstream, MESSAGES_CACHE, attempt, sleeps, nrequests,
                   requested, exhausted, result, response, scan>>

\* The first page answers 2xx: lines 56-67
FirstPageOk ==
    /\ pc = "first_get"
    /\ 0 \in inflight
    /\ inflight' = inflight \ {0}
    /\ succeeded' = succeeded \cup {0}
    /\ UNCHANGED <<upstream, requested, exhausted, response, scan>>
    /\ IF upstream.total = 0
       THEN Publish(<<>>)
       ELSE /\ total' = upstream.total
            /\ all_data' = Extend(all_data, UpstreamItems(0, UPSTREAM_PAGE_LIMIT))
            /\ skip' = NextSkip(skip)
            /\ outcomes' = Append(outcomes, "ok")
            /\ pc' = AfterFirstPage(NextSkip(skip), upstream.total)
            /\ sleeping' = PauseBefore(AfterFirstPage(NextSkip(skip), upstream.total))
            /\ UNCHANGED <<MESSAGES_CACHE, attempt, sleeps, nrequests, result>>

\* An attempt at the first page fails: lines 69-74, the backoff sleep begins
FirstPageFail(e) ==
    /\ pc = "first_get"
    /\ 0 \in inflight
    /\ inflight' = inflight \ {0}
    /\ outcomes' = Append(outcomes, "fail")
    /\ sleeps' = Append(sleeps, Delay(attempt))
    /\ pc' = "first_backoff"
    /\ sleeping' = Delay(attempt)
    /\ UNCHANGED <<upstream, MESSAGES_CACHE, all_data, skip, total, attempt,
                   nrequests, requested, succeeded, exhausted, result,
                   response, scan>>

\* the for-else forgotten: the exhausted first page falls through to the
\* final check
FirstPageWakeNoRaise ==
    /\ pc = "first_backoff"
    /\ UNCHANGED <<upstream, MESSAGES_CACHE, succeeded, response, scan>>
    /\ IF attempt + 1 < MAX_RETRIES
       THEN /\ attempt' = attempt + 1
            /\ inflight' = inflight \cup {0}
            /\ nrequests' = nrequests + 1
            /\ requested' = requested \cup {0}
            /\ pc' = "first_get"
            /\ sleeping' = 0
            /\ UNCHANGED <<all_data, skip, total, sleeps, outcomes, exhausted,
                           result>>
       ELSE /\ exhausted' = exhausted \cup {0}
            /\ pc' = "final_check"
            /\ sleeping' = 0
            /\ UNCHANGED <<all_data, skip, total, attempt, sleeps, outcomes,
                           nrequests, inflight, requested, result>>

\* The backoff sleep of the first page ends: the next attempt, or after the
\* last one the for-else raises ConnectionError (line 77), which
\* startup_event catches (lines 127-128)
FirstPageWake ==
    /\ pc = "first_backoff"
    /\ UNCHANGED <<upstream, MESSAGES_CACHE, succeeded, response, scan>>
    /\ IF attempt + 1 < MAX_RETRIES
       THEN /\ attempt' = attempt + 1
            /\ inflight' = inflight \cup {0}
            /\ nrequests' = nrequests + 1
            /\ requested' = requested \cup {0}
            /\ pc' = "first_get"
            /\ sleeping' = 0
            /\ UNCHANGED <<all_data, skip, total, sleeps, outcomes, exhausted,
                           result>>
       ELSE /\ exhausted' = exhausted \cup {0}
            /\ result' = "critical"
            /\ pc' = "done"
            /\ sleeping' = 0
            /\ LocalsDropped
            /\ UNCHANGED <<inflight, requested>>

\* The base-delay sleep before an offset ends (line 86): the retry loop of
\* the offset begins with its first request (lines 89-94)
PagePauseWake ==
    /\ pc = "page_pause"
    /\ attempt' = 0
    /\ sleeps' = <<>>
    /\ outcomes' = <<>>
    /\ inflight' = inflight \cup {skip}
    /\ nrequests' = nrequests + 1
    /\ requested' = requested \cup {skip}
    /\ pc' = "page_get"
    /\ sleeping' = 0
    /\ UNCHANGED <<upstream, MESSAGES_CACHE, all_data, skip, total, succeeded,
                   exhausted, result, response, scan>>

\* the global cache used as the accumulator
PageOkPublishing ==
    /\ pc = "page_get"
    /\ skip \in inflight
    /\ inflight' = inflight \ {skip}
    /\ all_data' = Extend(all_data, UpstreamItems(skip, UPSTREAM_PAGE_LIMIT))
    /\ MESSAGES_CACHE' = all_data'
    /\ outcomes' = Append(outcomes, "ok")
    /\ succeeded' = succeeded \cup {skip}
    /\ skip' = NextSkip(skip)
    /\ pc' = AfterPage(NextSkip(skip), total)
    /\ sleeping' = PauseBefore(AfterPage(NextSkip(skip), total))
    /\ UNCHANGED <<upstream, total, attempt, sleeps, nrequests, requested,
                   exhausted, result, response, scan>>

\* A later page answers 2xx: lines 95-99, then line 109
PageOk ==
    /\ pc = "page_get"
    /\ skip \in inflight
    /\ inflight' = inflight \ {skip}
    /\ all_data' = Extend(all_data, UpstreamItems(skip, UPSTREAM_PAGE_LIMIT))
    /\ outcomes' = Append(outcomes, "ok")
    /\ succeeded' = succeeded \cup {skip}
    /\ skip' = NextSkip(skip)
    /\ pc' = AfterPage(NextSkip(skip), total)
    /\ sleeping' = PauseBefore(AfterPage(NextSkip(skip), total))
    /\ UNCHANGED <<upstream, MESSAGES_CACHE, total, attempt, sleeps,
                   nrequests, requested, exhausted, result, response, scan>>

\* the exhausted later page raising like the first page does
PageFailFatal(e) ==
    /\ pc = "page_get"
    /\ skip \in inflight
    /\ inflight' = inflight \ {skip}
    /\ UNCHANGED <<upstream, MESSAGES_CACHE, requested, succeeded, response,
                   scan>>
    /\ IF attempt < MAX_RETRIES - 1
       THEN /\ outcomes' = Append(outcomes, "fail")
            /\ sleeps' = Append(sleeps, Delay(attempt))
            /\ pc' = "page_backoff"
            /\ sleeping' = Delay(attempt)
            /\ UNCHANGED <<all_data, skip, total, attempt, nrequests,
                           exhausted, result>>
       ELSE /\ exhausted' = exhausted \cup {skip}
            /\ result' = "critical"
            /\ pc' = "done"
            /\ sleeping' = 0
            /\ LocalsDropped

\* one attempt too many: `range(MAX_RETRIES + 1)`
PageFailExtraAttempt(e) ==
    /\ pc = "page_get"
    /\ skip \in inflight
    /\ inflight' = inflight \ {skip}
    /\ outcomes' = Append(outcomes, "fail")
    /\ UNCHANGED <<upstream, MESSAGES_CACHE, all_data, total, attempt,
                   nrequests, requested, succeeded, result, response, scan>>
    /\ IF attempt < MAX_RETRIES
       THEN /\ sleeps' = Append(sleeps, Delay(attempt))
            /\ pc' = "page_backoff"
            /\ sleeping' = Delay(attempt)
            /\ UNCHANGED <<skip, exhausted>>
       ELSE /\ exhausted' = exhausted \cup {skip}
            /\ skip' = NextSkip(skip)
            /\ pc' = AfterPage(NextSkip(skip), total)
            /\ sleeping' = PauseBefore(AfterPage(NextSkip(skip), total))
            /\ UNCHANGED sleeps

\* An attempt at a later page fails: lines 101-107, then line 109 after the
\* last attempt
PageFail(e) ==
    /\ pc = "page_get"
    /\ skip \in inflight
    /\ inflight' = inflight \ {skip}
    /\ outcomes' = Append(outcomes, "fail")
    /\ UNCHANGED <<upstream, MESSAGES_CACHE, all_data, total, attempt,
                   nrequests, requested, succeeded, result, response, scan>>
    /\ IF attempt < MAX_RETRIES - 1
       THEN /\ sleeps' = Append(sleeps, Delay(attempt))
            /\ pc' = "page_backoff"
            /\ sleeping' = Delay(attempt)
            /\ UNCHANGED <<skip, exhausted>>
       ELSE /\ exhausted' = exhausted \cup {skip}
            /\ skip' = NextSkip(skip)
            /\ pc' = AfterPage(NextSkip(skip), total)
            /\ sleeping' = PauseBefore(AfterPage(NextSkip(skip), total))
            /\ UNCHANGED sleeps

\* The backoff sleep of a later page ends: the next attempt
PageWake ==
    /\ pc = "page_backoff"
    /\ attempt' = attempt + 1
    /\ inflight' = inflight \cup {skip}
    /\ nrequests' = nrequests + 1
    /\ requested' = requested \cup {skip}
    /\ pc' = "page_get"
    /\ sleeping' = 0
    /\ UNCHANGED <<upstream, MESSAGES_CACHE, all_data, skip, total, sleeps,
                   outcomes, succeeded, exhausted, result, response, scan>>

\* Lines 111-118: the count check only warns; fetch_all_messages returns
\* all_data and startup_event stores it (line 126)
Finish ==
    /\ pc = "final_check"
    /\ Publish(all_data)
    /\ UNCHANGED <<upstream, inflight, requested, succeeded, exhausted,
                   response, scan>>

Init ==
    /\ upstream \in Datasets
    /\ MESSAGES_CACHE = <<>>
    /\ pc = "boot"
    /\ all_data = <<>>
    /\ skip = 0
    /\ total = None
    /\ attempt = 0
    /\ inflight = {}
    /\ sleeps = <<>>
    /\ outcomes = <<>>
    /\ sleeping = 0
    /\ nrequests = 0
    /\ requested = {}
    /\ succeeded = {}
    /\ exhausted = {}
    /\ result = "pending"
    /\ response = [request |-> [query |-> <<>>, page |-> 0, limit |-> 0],
                   status |-> 0, result |-> <<>>]
    /\ scan = NoScan

Next ==
    \/ Startup
    \/ FirstPageOk
    \/ \E e \in FetchErrors : FirstPageFail(e)
    \/ FirstPageWake
    \/ PagePauseWake
    \/ PageOk
    \/ \E e \in FetchErrors : PageFail(e)
    \/ PageWake
    \/ Finish
    \/ \E r \in Requests : Search(r.query, r.page, r.limit)

Spec == Init /\ [][Next]_vars

\* The steps of startup_event and fetch_all_messages
LoaderNext ==
    \/ Startup
    \/ FirstPageOk
    \/ \E e \in FetchErrors : FirstPageFail(e)
    \/ FirstPageWake
    \/ PagePauseWake
    \/ PageOk
    \/ \E e \in FetchErrors : PageFail(e)
    \/ PageWake
    \/ Finish

\* Every await of the loader completes: a request ends in a response or, at
\* the latest on the client's timeout (line 124), in an exception, and an
\* asyncio.sleep ends
FairSpec == Spec /\ WF_vars(LoaderNext)

-----------------------------------------------------------------------------
(* Properties *)

\* needle occurs in hay as a contiguous run of characters
HasSubstring(needle, hay) ==
    \E a \in 1..(Len(hay) + 1) : \E b \in (a - 1)..Len(hay) :
        SubSeq(hay, a, b) = needle

\* The cached record satisfies the search predicate for query q
Satisfies(rec, q) ==
    \/ HasSubstring(Lower(q), Lower(rec.message))
    \/ HasSubstring(Lower(q), Lower(rec.user_name))

\* C1: a successful search returns at most `limit` items, and total_matches
\* is the number of cached records whose lower-cased message or user_name
\* contains the lower-cased query, whatever the page and the limit.
C1_AtMostLimitAndCount ==
    response.status = 200 =>
        LET r == response.result[1]
            q == response.request.query
        IN  /\ Len(r.items) <= response.request.limit
            /\ r.total_matches =
                   Cardinality({i \in 1..Len(MESSAGES_CACHE) :
                                    Satisfies(MESSAGES_CACHE[i], q)})

\* A full page of 100 out of more matches, in a cache that also holds
\* records that do not match
C1_Witness ==
    /\ response.status = 200
    /\ Len(response.result[1].items) = LIMIT_LE
    /\ response.result[1].total_matches > LIMIT_LE
    /\ response.result[1].total_matches < Len(MESSAGES_CACHE)

\* The full, unsliced match list of query q: the cached records that
\* satisfy the predicate, in cache order
FullMatchList(q) ==
    SelectSeq(MESSAGES_CACHE, LAMBDA rec : Satisfies(rec, q))

\* C2: the items of pages 1..k of one query and limit, concatenated, are the
\* first k*limit elements of the full match list in cache order (nothing
\* duplicated, nothing omitted) while k*limit <= total_matches; and the
\* same request repeated returns the same page.
C2_PagesConcatenate ==
    /\ [](scan.k >= 1 /\ scan.k * scan.limit <= Len(FullMatchList(scan.query))
            => /\ scan.items
                      = SubSeq(FullMatchList(scan.query), 1, scan.k * scan.limit)
               /\ \A i, j \in 1..Len(scan.items) :
                      i < j => scan.items[i].id < scan.items[j].id)
    /\ [][response.status = 200 /\ response'.status = 200
              /\ response'.request = response.request
            => response'.result = response.result]_vars

\* Three pages of two read in a row, from a cache in which only every other
\* record matches
C2_Witness ==
    /\ scan.k = 3
    /\ scan.limit = 2
    /\ Len(scan.items) = 6
    /\ response.status = 200
    /\ response.result[1].total_matches < Len(MESSAGES_CACHE)

\* The step is a call of search_messages (the request passed validation)
SearchCall ==
    /\ response' # response
    /\ response'.request.query # <<>>
    /\ response'.request.page >= 1
    /\ response'.request.limit \in 1..100

\* C3: on an empty cache every call of search_messages answers 503 and no
\* SearchResult; on a non-empty cache it never answers 503, and a query that
\* matches nothing gets a SearchResult with total_matches = 0 and no items.
C3_UnavailableIffEmpty ==
    [][SearchCall
        => IF MESSAGES_CACHE = <<>>
           THEN response'.status = 503 /\ response'.result = <<>>
           ELSE /\ response'.status = 200
                /\ Len(response'.result) = 1
                /\ (\A i \in 1..Len(MESSAGES_CACHE) :
                        ~Satisfies(MESSAGES_CACHE[i], response'.request.query))
                     => /\ response'.result[1].total_matches = 0
                        /\ response'.result[1].items = <<>>]_vars

\* A search that matched nothing in a loaded cache
C3_Witness ==
    /\ MESSAGES_CACHE # <<>>
    /\ response.status = 200
    /\ response.result[1].total_matches = 0
    /\ response.result[1].items = <<>>

\* The offsets 0, 100, 200, ... below t
PageOffsets(t) == {o \in 0..(t - 1) : o % UPSTREAM_PAGE_LIMIT = 0}

\* The pages of the offsets in S from offset o on, in increasing offset order
RECURSIVE PagesOf(_, _)
PagesOf(o, S) ==
    IF o >= upstream.total THEN <<>>
    ELSE (IF o \in S THEN UpstreamItems(o, UPSTREAM_PAGE_LIMIT) ELSE <<>>)
             \o PagesOf(o + UPSTREAM_PAGE_LIMIT, S)

\* C4: a later page that runs out of retries does not fail the load: the
\* loader moves past its offset, still requests every remaining offset, and
\* the published cache is made of the pages that succeeded; searches on it
\* succeed.
C4_LaterPageFailureAbsorbed ==
    /\ []((exhausted \ {0}) # {}
            => /\ result # "critical"
               /\ (pc # "done" => \A s \in exhausted : skip > s)
               /\ (pc = "done"
                     => /\ result = "loaded"
                        /\ requested = PageOffsets(upstream.total)
                        /\ MESSAGES_CACHE = PagesOf(0, succeeded)
                        /\ MESSAGES_CACHE # <<>>))
    /\ [][(exhausted \ {0}) # {} /\ pc = "done" /\ SearchCall
            => response'.status = 200]_vars

\* total = 250 and the offset 200 failed five times: 200 records are served
C4_Witness ==
    /\ upstream.total = 250
    /\ pc = "done"
    /\ exhausted = {200}
    /\ Len(MESSAGES_CACHE) = 200
    /\ response.status = 200

\* C5: when all MAX_RETRIES attempts at the first page fail, the load raises
\* its critical failure having requested no offset but 0, startup_event
\* absorbs it, the cache stays empty and every later search answers 503.
C5_CriticalFailure ==
    /\ [](/\ (0 \in exhausted <=> result = "critical")
          /\ (result = "critical"
                => /\ pc = "done"
                   /\ requested = {0}
                   /\ inflight = {}
                   /\ MESSAGES_CACHE = <<>>))
    /\ [][result' = "critical" /\ result # "critical"
            => /\ outcomes = [i \in 1..MAX_RETRIES |-> "fail"]
               /\ requested' = {0}]_vars
    /\ [][pc = "first_backoff" /\ Len(outcomes) = MAX_RETRIES /\ pc' # pc
            => result' = "critical"]_vars
    /\ [][result = "critical" /\ SearchCall
            => response'.status = 503 /\ response'.result = <<>>]_vars

\* The load has failed critically and a search was answered 503
C5_Witness ==
    /\ result = "critical"
    /\ pc = "done"
    /\ upstream.total > 0
    /\ response.status = 503

\* C6: when the first page reports total = 0 the load returns the empty
\* list at once and without error, no further request is sent, and every
\* search answers 503.
C6_ZeroTotal ==
    /\ [](upstream.total = 0 /\ 0 \in succeeded
            => /\ pc = "done"
               /\ result = "loaded"
               /\ MESSAGES_CACHE = <<>>
               /\ inflight = {}
               /\ requested = {0})
    /\ [][upstream.total = 0 /\ 0 \in succeeded
            => inflight' = {} /\ requested' = requested]_vars
    /\ [][upstream.total = 0 /\ 0 \in succeeded /\ SearchCall
            => response'.status = 503 /\ response'.result = <<>>]_vars

\* The upstream had no record, the load returned, a search was answered 503
C6_Witness ==
    /\ upstream.total = 0
    /\ 0 \in succeeded
    /\ result = "loaded"
    /\ response.status = 503

\* C7: in every state the published cache is either empty or the complete
\* list fetch_all_messages returned, stored in one step; a search handled
\* before the load has completed answers 503 and never sees a partial list.
C7_AtomicPublication ==
    /\ [](\/ MESSAGES_CACHE = <<>>
          \/ /\ pc = "done"
             /\ result = "loaded"
             /\ MESSAGES_CACHE = PagesOf(0, succeeded))
    /\ [][MESSAGES_CACHE' # MESSAGES_CACHE
            => pc = "final_check" /\ pc' = "done" /\ MESSAGES_CACHE' = all_data]_vars
    /\ [][pc # "done" /\ SearchCall
            => response'.status = 503 /\ response'.result = <<>>]_vars

\* A search answered 503 while the loader, holding the first page or more,
\* waits for a later page
C7_Witness ==
    /\ pc \in {"page_get", "page_backoff"}
    /\ Len(all_data) >= UPSTREAM_PAGE_LIMIT
    /\ MESSAGES_CACHE = <<>>
    /\ response.status = 503

\* C8: when no offset ran out of retries the returned list is as long as
\* the total the first page reported; and whatever the count, the final
\* check only warns: the list is returned and published.
C8_LengthEqualsTotal ==
    /\ [](/\ (pc = "final_check" /\ exhausted = {}
                => Len(all_data) = total /\ total = upstream.total)
          /\ (pc = "done" /\ result = "loaded" /\ exhausted = {}
                => Len(MESSAGES_CACHE) = upstream.total))
    /\ [][pc = "final_check" /\ pc' # pc
            => /\ pc' = "done"
               /\ result' = "loaded"
               /\ MESSAGES_CACHE' = all_data]_vars

\* All three pages of a 250-record feed loaded
C8_Witness ==
    /\ pc = "done"
    /\ result = "loaded"
    /\ exhausted = {}
    /\ succeeded = {0, 100, 200}
    /\ Len(MESSAGES_CACHE) = 250

\* C9: for a first-page total T > 0 the loader requests exactly the offsets
\* 0, 100, 200, ... below T, in increasing order, one request at a time and
\* never an earlier offset again, whether or not later pages succeed.
C9_OffsetsInOrder ==
    /\ [](/\ Cardinality(inflight) <= 1
          /\ (pc = "final_check"
                \/ (pc = "done" /\ result = "loaded" /\ upstream.total > 0)
                => requested = PageOffsets(upstream.total)))
    /\ [][inflight' # inflight /\ inflight' # {}
            => /\ inflight = {}
               /\ \E o \in inflight' :
                      /\ inflight' = {o}
                      /\ requested' = requested \cup {o}
                      /\ \A r \in requested : r <= o
                      /\ (o \notin requested => requested = PageOffsets(o))
                      /\ (o > 0 => o < upstream.total)]_vars

\* Offsets 0, 100, 200 requested although offset 100 failed every attempt
C9_Witness ==
    /\ pc = "done"
    /\ requested = {0, 100, 200}
    /\ exhausted = {100}
    /\ succeeded = {0, 200}

\* C10: the retry loop of a later page follows the same policy as that of
\* the first page: at most MAX_RETRIES attempts, none after a success, and
\* after the failed attempt number a (from 0) a sleep of base * 2^a.
C10_SameRetryPolicy ==
    LET fails == {i \in 1..Len(outcomes) : outcomes[i] = "fail"}
    IN  /\ Len(outcomes) <= MAX_RETRIES
        /\ \A i \in 1..Len(outcomes) : outcomes[i] = "ok" => i = Len(outcomes)
        /\ Len(sleeps) = Cardinality(fails)
        /\ \A a \in 1..Len(sleeps) : sleeps[a] = 500 * Pow2(a - 1)

\* C11: once startup_event has finished the cache never changes again:
\* no search writes to it, whether it answers 200 or 503, and the load is
\* never run again, so a cache left empty by a critical failure stays empty.
C11_SnapshotFrozen ==
    /\ [][response' # response => MESSAGES_CACHE' = MESSAGES_CACHE]_vars
    /\ [][pc = "done"
            => /\ MESSAGES_CACHE' = MESSAGES_CACHE
               /\ pc' = "done"
               /\ result' = result
               /\ inflight' = {}
               /\ requested' = requested]_vars
    /\ [][result = "critical"
            => result' = "critical" /\ MESSAGES_CACHE' = <<>>]_vars

\* Three pages read in a row from a loaded cache, long after the load
C11_Witness ==
    /\ pc = "done"
    /\ result = "loaded"
    /\ MESSAGES_CACHE # <<>>
    /\ response.status = 200
    /\ scan.k = 3

\* C12: a page whose start index (P-1)*limit is at or beyond the number of
\* matches gets no item, the same total_matches as any other page of the
\* query (the number of matching records), and no error.
C12_PageBeyondLast ==
    response.status = 200
        => LET r == response.result[1]
               q == response.request.query
               P == response.request.page
               L == response.request.limit
               n == Cardinality({i \in 1..Len(MESSAGES_CACHE) :
                                     Satisfies(MESSAGES_CACHE[i], q)})
           IN  /\ Len(response.result) = 1
               /\ ((P - 1) * L >= n => r.items = <<>> /\ r.total_matches = n)
               /\ (scan.k = P /\ scan.query = q /\ scan.limit = L /\ P > 1
                     /\ (P - 1) * L >= n
                     => Len(scan.items) = r.total_matches)

\* Page 3 of a query with one or two matches, read after pages 1 and 2
C12_Witness ==
    /\ response.status = 200
    /\ response.request.page = 3
    /\ scan.k = 3
    /\ response.result[1].total_matches > 0
    /\ response.result[1].items = <<>>

\* C13: a request with an empty query, a page below 1 or a limit outside
\* 1..100 is answered with a validation error before search_messages runs:
\* neither a SearchResult nor a 503, and the cache is untouched.
C13_RejectedAtBoundary ==
    [][response' # response
          /\ (\/ response'.request.query = <<>>
              \/ response'.request.page < 1
              \/ response'.request.limit < 1
              \/ response'.request.limit > 100)
        => /\ response'.status = 422
           /\ response'.result = <<>>
           /\ MESSAGES_CACHE' = MESSAGES_CACHE]_vars

\* A limit of 101 rejected although the cache is loaded and the query matches
C13_Witness ==
    /\ response.status = 422
    /\ response.request.limit = 101
    /\ response.request.page >= 1
    /\ response.request.query = <<"a">>
    /\ MESSAGES_CACHE # <<>>
    /\ Satisfies(MESSAGES_CACHE[1], <<"a">>)

\* C14: the first request of every offset >= 100 is sent out of the base
\* delay sleep (INITIAL_DELAY_SECONDS), never straight after the previous
\* offset's last attempt; the pause is taken once per offset, and a retry of
\* the same offset follows its backoff sleep only.
C14_PauseBeforeEachOffset ==
    /\ [](pc = "page_pause"
            => /\ sleeping = 500
               /\ inflight = {}
               /\ skip >= 100
               /\ skip \notin requested)
    /\ [][inflight' # inflight /\ inflight' # {} /\ inflight' # {0}
            => IF inflight' \cap requested = {}
               THEN pc = "page_pause" /\ sleeping = 500 /\ inflight' = {skip}
               ELSE pc = "page_backoff" /\ sleeping = sleeps[Len(sleeps)]]_vars
    /\ [][pc' = "page_pause" /\ pc # "page_pause" => skip' > skip]_vars
    /\ [][pc = "page_pause" /\ pc' # pc
            => pc' = "page_get" /\ inflight' = {skip}]_vars

\* The pause before offset 200, right after offset 100 ran out of attempts
C14_Witness ==
    /\ pc = "page_pause"
    /\ skip = 200
    /\ exhausted = {100}
    /\ outcomes = <<"fail", "fail", "fail", "fail", "fail">>
    /\ sleeping = 500

\* C15: whatever the total and the outcomes of the attempts, the load ends
\* (it returns or raises its critical failure), and it never sends more
\* requests than MAX_RETRIES times the number of offsets 0, 100, ... below
\* the total (one offset at least).
C15_TerminatesWithinBudget ==
    /\ <>(pc = "done")
    /\ [](nrequests
            <= 5 * (IF upstream.total <= 100 THEN 1
                    ELSE (upstream.total + 99) \div 100))

\* Three offsets, five requests each
C15_Witness ==
    /\ upstream.total = 250
    /\ pc = "final_check"
    /\ nrequests = 15
    /\ exhausted = {100, 200}

\* C16: throughout the load the accumulated list is the concatenation, in
\* increasing offset order, of the pages of exactly the offsets fetched
\* successfully so far, each once; a failed attempt adds nothing.
C16_AccumulatedPages ==
    /\ [](pc \notin {"boot", "done"} => all_data = PagesOf(0, succeeded))
    /\ [][pc \notin {"boot", "done"} /\ pc' # "done"
            /\ succeeded' = succeeded
            => all_data' = all_data]_vars
    /\ [][succeeded' # succeeded /\ pc' # "done"
            => \E o \in succeeded' \ succeeded :
                   /\ succeeded' = succeeded \cup {o}
                   /\ \A r \in succeeded : r < o
                   /\ all_data'
                          = all_data \o UpstreamItems(o, UPSTREAM_PAGE_LIMIT)]_vars

\* Offset 100 exhausted, offset 200 fetched at its second attempt: 150 records
C16_Witness ==
    /\ pc = "final_check"
    /\ succeeded = {0, 200}
    /\ exhausted = {100}
    /\ outcomes = <<"fail", "ok">>
    /\ Len(all_data) = 150

====
